---- MODULE Spec2Model ----
(***************************************************************************)
(* Elysium Shield Integration SDK (src/shieldIntegration.js).              *)
(*                                                                         *)
(* One ShieldIntegration instance, the calls made on it, the HTTP request  *)
(* each call issues and the events node's http client delivers for it.     *)
(*                                                                         *)
(* Encoding of JavaScript values                                           *)
(*   - an object is a function from the names of its own properties;       *)
(*   - undefined is the reserved string Undefined where a string is        *)
(*     expected, and a missing key where a property is expected;           *)
(*   - a parsed JSON value and a value returned to a caller carry their    *)
(*     typeof: [type |-> "object", obj |-> o], [type |-> "null"],          *)
(*     [type |-> "boolean", val |-> b], [type |-> "undefined"];            *)
(*   - a number that may be NaN is [nan |-> FALSE, n |-> i] or NaN;        *)
(*   - a header value is a sequence of one-character strings.              *)
(***************************************************************************)
EXTENDS Integers, Sequences, FiniteSets, TLC

VARIABLES
    config,          \* apiKey, apiUrl, timeout, debug, version of the instance
    lastRateLimit,   \* this._lastRateLimit
    call,            \* call[c]: the public operation invoked as call c
    issued,          \* issued[c]: the requests call c handed to client.request
    phase,           \* phase[c]: where the request of call c is on the wire
    destroyed,       \* destroyed[c]: req.destroy() was called
    res,             \* res[c]: statusCode and headers of the response
    body,            \* body[c]: the text accumulated by res.on('data')
    events,          \* events[c]: the events delivered to the handlers so far
    promise,         \* promise[c]: the promise _request returned
    outcome,         \* outcome[c]: the promise the public operation returned
    verified,        \* verified[c]: the promise verifyApiKey returned
    lastCompleted    \* the call whose response was last received in full, or 0

vars == <<config, lastRateLimit, call, issued, phase, destroyed, res, body,
          events, promise, outcome, verified, lastCompleted>>

-----------------------------------------------------------------------------
(* Bounds *)

MaxCalls == 2

Calls == 1..MaxCalls

\* The calls the sequential specification Spec drives: one call at a time
\* on the instance.
SeqCalls == {1}

-----------------------------------------------------------------------------
(* JavaScript values *)

Undefined == "<undefined>"

Has(o, k) == k \in DOMAIN o

\* o[k] for a string-valued property
Get(o, k) == IF Has(o, k) THEN o[k] ELSE Undefined

\* truthiness of a string-or-undefined value
Truthy(s) == s # Undefined /\ s # ""

\* a || b for string-or-undefined values
Or(a, b) == IF Truthy(a) THEN a ELSE b

\* o.k = v
With(o, k, v) == [j \in DOMAIN o \cup {k} |-> IF j = k THEN v ELSE o[j]]

EmptyObject == [j \in {} |-> Undefined]

NaN == [nan |-> TRUE, n |-> 0]

Num(i) == [nan |-> FALSE, n |-> i]

JsObject(o) == [type |-> "object", obj |-> o]

JsNull == [type |-> "null"]

JsUndefined == [type |-> "undefined"]

JsBoolean(b) == [type |-> "boolean", val |-> b]

\* new Error(message)
Error(message) == [name |-> "Error", message |-> message]

\* the TypeError of reading property k of null
NullReadError(k) ==
    [name |-> "TypeError",
     message |-> "Cannot read properties of null (reading '" \o k \o "')"]

-----------------------------------------------------------------------------
(* parseInt and Date.prototype.toISOString *)

Digits == [ch \in {"0", "1", "2", "3", "4", "5", "6", "7", "8", "9"} |->
             CASE ch = "0" -> 0 [] ch = "1" -> 1 [] ch = "2" -> 2
               [] ch = "3" -> 3 [] ch = "4" -> 4 [] ch = "5" -> 5
               [] ch = "6" -> 6 [] ch = "7" -> 7 [] ch = "8" -> 8
               [] ch = "9" -> 9]

RECURSIVE LeadingDigits(_, _)
\* the value of the longest prefix of digits of s, continuing from acc
LeadingDigits(s, acc) ==
    IF s = <<>> \/ Head(s) \notin DOMAIN Digits
    THEN acc
    ELSE LeadingDigits(Tail(s), 10 * acc + Digits[Head(s)])

\* parseInt(s) of an unsigned header value: NaN unless s starts with a digit
parseInt(s) ==
    IF s = <<>> \/ Head(s) \notin DOMAIN Digits
    THEN NaN
    ELSE Num(LeadingDigits(s, 0))

Pad(n, width) ==
    LET str == ToString(n)
    IN  CASE Len(str) >= width -> str
          [] Len(str) = width - 1 -> "0" \o str
          [] Len(str) = width - 2 -> "00" \o str
          [] OTHER -> "000" \o str

\* toISOString if it wrote the date and not the time of day
toISOStringDate(seconds) ==
    LET z    == seconds \div 86400 + 719468
        era  == z \div 146097
        doe  == z - era * 146097
        yoe  == (doe - doe \div 1460 + doe \div 36524 - doe \div 146096) \div 365
        doy  == doe - (365 * yoe + yoe \div 4 - yoe \div 100)
        mp   == (5 * doy + 2) \div 153
        d    == doy - (153 * mp + 2) \div 5 + 1
        m    == IF mp < 10 THEN mp + 3 ELSE mp - 9
        y    == yoe + era * 400 + (IF m <= 2 THEN 1 ELSE 0)
    IN  Pad(y, 4) \o "-" \o Pad(m, 2) \o "-" \o Pad(d, 2) \o "T00:00:00.000Z"

\* new Date(seconds * 1000).toISOString() for seconds >= 0: the civil date
\* of the day number, then the time of day; the milliseconds of a whole
\* number of seconds are 000.
toISOString(seconds) ==
    LET days == seconds \div 86400
        rem  == seconds % 86400
        z    == days + 719468
        era  == z \div 146097
        doe  == z - era * 146097
        yoe  == (doe - doe \div 1460 + doe \div 36524 - doe \div 146096) \div 365
        doy  == doe - (365 * yoe + yoe \div 4 - yoe \div 100)
        mp   == (5 * doy + 2) \div 153
        d    == doy - (153 * mp + 2) \div 5 + 1
        m    == IF mp < 10 THEN mp + 3 ELSE mp - 9
        y    == yoe + era * 400 + (IF m <= 2 THEN 1 ELSE 0)
    IN  Pad(y, 4) \o "-" \o Pad(m, 2) \o "-" \o Pad(d, 2) \o "T"
          \o Pad(rem \div 3600, 2) \o ":" \o Pad((rem % 3600) \div 60, 2)
          \o ":" \o Pad(rem % 60, 2) \o ".000Z"

-----------------------------------------------------------------------------
(* What the remote service may answer *)

StatusCodes == {200, 401, 429}

RateLimitHeaders ==
    {"x-ratelimit-limit", "x-ratelimit-remaining", "x-ratelimit-reset",
     "retry-after"}

\* the values the service may give header h; the reset header may also be
\* malformed
HeaderValues(h) ==
    IF h = "x-ratelimit-reset"
    THEN {<<"0">>, <<"4", "2">>, <<"x">>}
    ELSE {<<"0">>, <<"4", "2">>}

\* res.headers: every choice of which rate-limit headers are present and of
\* their values
HeaderSets ==
    UNION {{hs \in [present -> UNION {HeaderValues(h) : h \in present}] :
              \A h \in present : hs[h] \in HeaderValues(h)} :
           present \in SUBSET RateLimitHeaders}

DocOk       == "{\"success\":true,\"data\":{\"flagged\":false}}"
DocOkHead   == "{\"success\":true,"
DocOkTail   == "\"data\":{\"flagged\":false}}"
DocNoData   == "{\"success\":true}"
DocRefused  == "{\"success\":false,\"error\":\"Invalid API key\"}"
DocFalse    == "{\"success\":false}"
DocLimited  == "{\"message\":\"Too many requests\",\"error\":\"rate_limited\"}"
DocEmpty    == "{}"
DocNull     == "null"
DocTrue     == "true"
DocHtml     == "<html>Bad Gateway</html>"

\* the chunks the service may send once `text` has been received: a whole
\* document, or the document DocOk in two chunks
NextChunks(text) ==
    CASE text = "" -> {DocOk, DocOkHead, DocNoData, DocRefused, DocFalse,
                       DocLimited, DocEmpty, DocNull, DocTrue, DocHtml}
      [] text = DocOkHead -> {DocOkTail}
      [] OTHER -> {}

\* JSON.parse(text) on the texts the service can have sent: the value, or
\* the SyntaxError it throws
JSONParse(text) ==
    CASE text = DocOk ->
           [ok |-> TRUE,
            value |-> JsObject([success |-> TRUE, data |-> [flagged |-> FALSE]])]
      [] text = DocNoData ->
           [ok |-> TRUE, value |-> JsObject([success |-> TRUE])]
      [] text = DocRefused ->
           [ok |-> TRUE,
            value |-> JsObject([success |-> FALSE, error |-> "Invalid API key"])]
      [] text = DocFalse ->
           [ok |-> TRUE, value |-> JsObject([success |-> FALSE])]
      [] text = DocLimited ->
           [ok |-> TRUE,
            value |-> JsObject([message |-> "Too many requests",
                                error |-> "rate_limited"])]
      [] text = DocEmpty -> [ok |-> TRUE, value |-> JsObject(EmptyObject)]
      [] text = DocNull -> [ok |-> TRUE, value |-> JsNull]
      [] text = DocTrue -> [ok |-> TRUE, value |-> JsBoolean(TRUE)]
      [] text = "" ->
           [ok |-> FALSE,
            error |-> [name |-> "SyntaxError",
                       message |-> "Unexpected end of JSON input"]]
      [] text = DocOkHead ->
           [ok |-> FALSE,
            error |-> [name |-> "SyntaxError",
                       message |-> "Unexpected end of JSON input"]]
      [] OTHER ->
           [ok |-> FALSE,
            error |-> [name |-> "SyntaxError",
                       message |-> "Unexpected token < in JSON at position 0"]]

-----------------------------------------------------------------------------
(* The res 'end' handler of _request *)

\* res.headers[h] is truthy
HeaderPresent(headers, h) == Has(headers, h) /\ headers[h] # <<>>

\* the reset header is present and new Date(NaN).toISOString() throws
ResetThrows(headers) ==
    /\ HeaderPresent(headers, "x-ratelimit-reset")
    /\ parseInt(headers["x-ratelimit-reset"]).nan

\* the rateLimit object built from the headers (when nothing throws)
ExtractRateLimit(headers) ==
    LET r0 == EmptyObject
        r1 == IF HeaderPresent(headers, "x-ratelimit-limit")
              THEN With(r0, "limit", parseInt(headers["x-ratelimit-limit"]))
              ELSE r0
        r2 == IF HeaderPresent(headers, "x-ratelimit-remaining")
              THEN With(r1, "remaining",
                        parseInt(headers["x-ratelimit-remaining"]))
              ELSE r1
        r3 == IF HeaderPresent(headers, "x-ratelimit-reset")
              THEN LET resetTimestamp == parseInt(headers["x-ratelimit-reset"])
                   IN  With(With(r2, "resetAt", toISOString(resetTimestamp.n)),
                            "resetTimestamp", resetTimestamp)
              ELSE r2
    IN  IF HeaderPresent(headers, "retry-after")
        THEN With(r3, "retryAfter", parseInt(headers["retry-after"]))
        ELSE r3

\* response.rateLimit = rateLimit, only for an object and a non-empty rateLimit
AttachRateLimit(response, rateLimit) ==
    IF response.type = "object" /\ DOMAIN rateLimit # {}
    THEN JsObject(With(response.obj, "rateLimit", rateLimit))
    ELSE response

\* response.k of a parsed value that is not null, as a string or Undefined
Field(response, k) ==
    IF response.type = "object" THEN Get(response.obj, k) ELSE Undefined

\* the object the catch block rejects with
ParseFailure(statusCode, error) ==
    [statusCode |-> statusCode,
     message |-> "Failed to parse response",
     error |-> error.message]

\* the reject of a status outside [200, 300)
StatusFailure(statusCode, response, rateLimit) ==
    [statusCode |-> statusCode,
     message |-> Or(Field(response, "message"),
                    Or(Field(response, "error"), "Request failed")),
     error |-> Or(Field(response, "error"), "Unknown error"),
     rateLimit |-> rateLimit]

\* the try block once JSON.parse has returned `value`: resolve(value) or
\* reject(reason)
OnParsed(statusCode, headers, value) ==
    IF ResetThrows(headers)
    THEN [kind |-> "reject",
          reason |-> ParseFailure(statusCode,
                                  [name |-> "RangeError",
                                   message |-> "Invalid time value"])]
    ELSE LET rateLimit == ExtractRateLimit(headers)
             response  == AttachRateLimit(value, rateLimit)
         IN  IF statusCode >= 200 /\ statusCode < 300
             THEN [kind |-> "resolve", value |-> response]
             ELSE IF response.type = "null"
             THEN [kind |-> "reject",
                   reason |-> ParseFailure(statusCode, NullReadError("message"))]
             ELSE [kind |-> "reject",
                   reason |-> StatusFailure(statusCode, response, rateLimit)]

\* the handler if it checked the status first and handed an unparsable body
\* of a 2xx response to the caller as raw text
OnEndLenient(statusCode, headers, text) ==
    IF JSONParse(text).ok
    THEN OnParsed(statusCode, headers, JSONParse(text).value)
    ELSE IF statusCode >= 200 /\ statusCode < 300
    THEN [kind |-> "resolve",
          value |-> JsObject([success |-> TRUE, data |-> [raw |-> text]])]
    ELSE [kind |-> "reject",
          reason |-> ParseFailure(statusCode, JSONParse(text).error)]

\* what the handler does with the promise: resolve(value) or reject(reason)
OnEnd(statusCode, headers, text) ==
    IF JSONParse(text).ok
    THEN OnParsed(statusCode, headers, JSONParse(text).value)
    ELSE [kind |-> "reject",
          reason |-> ParseFailure(statusCode, JSONParse(text).error)]

-----------------------------------------------------------------------------
(* The instance *)

DefaultApiUrl == "https://elysium-online.xyz/api"

DefaultTimeout == 10000

\* the options objects the instance may be constructed with
ConstructorOptions ==
    {EmptyObject, [apiUrl |-> "http://localhost:3000", timeout |-> 5000]}

\* the fields set by new ShieldIntegration(apiKey, options), apiKey truthy
Constructor(apiKey, options) ==
    [apiKey  |-> apiKey,
     apiUrl  |-> Or(Get(options, "apiUrl"), DefaultApiUrl),
     timeout |-> IF Has(options, "timeout") /\ options.timeout # 0
                 THEN options.timeout ELSE DefaultTimeout,
     debug   |-> Has(options, "debug") /\ options.debug,
     version |-> "1.0.0"]

\* getRateLimit(): this._lastRateLimit || null
getRateLimit ==
    IF lastRateLimit.type = "undefined" THEN JsNull ELSE lastRateLimit

\* new URL(s) for the base URLs of the model
ParseURL(s) ==
    CASE s = DefaultApiUrl ->
           [protocol |-> "https:", host |-> "elysium-online.xyz",
            pathname |-> "/api"]
      [] s = "http://localhost:3000" ->
           [protocol |-> "http:", host |-> "localhost:3000", pathname |-> "/"]

\* the URL if the endpoint were appended to the base
ResolveURLAppend(endpoint, base) ==
    [protocol |-> ParseURL(base).protocol, href |-> base \o endpoint]

\* new URL(endpoint, base).href for an endpoint that is an absolute path: the
\* endpoint replaces the path of the base
ResolveURL(endpoint, base) ==
    [protocol |-> ParseURL(base).protocol,
     href |-> ParseURL(base).protocol \o "//" \o ParseURL(base).host
                \o endpoint]

\* the members JSON.stringify(data) writes: the properties that are defined
JSONStringify(data) ==
    [k \in {j \in DOMAIN data : data[j] # Undefined} |-> data[k]]

-----------------------------------------------------------------------------
(* Promises *)

Pending == [state |-> "pending"]

NotStarted == [state |-> "none"]

Fulfilled(value) == [state |-> "fulfilled", value |-> value]

Rejected(reason) == [state |-> "rejected", reason |-> reason]

Settled(p) == p.state \in {"fulfilled", "rejected"}

\* resolve(value) on promise p: only the first settlement counts
Resolve(p, value) == IF p.state = "pending" THEN Fulfilled(value) ELSE p

\* reject(reason) as a plain callback would behave: the last call wins
RejectOverwrites(p, reason) == Rejected(reason)

\* reject(reason) on promise p: only the first settlement counts
Reject(p, reason) == IF p.state = "pending" THEN Rejected(reason) ELSE p

-----------------------------------------------------------------------------
(* Init *)

NoCall == [op |-> "none"]

NoResponse == [statusCode |-> 0, headers |-> EmptyObject]

Init ==
    /\ config \in {Constructor("sk_live_key", options) :
                     options \in ConstructorOptions}
    /\ lastRateLimit = JsUndefined
    /\ call = [c \in Calls |-> NoCall]
    /\ issued = [c \in Calls |-> <<>>]
    /\ phase = [c \in Calls |-> "none"]
    /\ destroyed = [c \in Calls |-> FALSE]
    /\ res = [c \in Calls |-> NoResponse]
    /\ body = [c \in Calls |-> ""]
    /\ events = [c \in Calls |-> <<>>]
    /\ promise = [c \in Calls |-> NotStarted]
    /\ outcome = [c \in Calls |-> NotStarted]
    /\ verified = [c \in Calls |-> NotStarted]
    /\ lastCompleted = 0

-----------------------------------------------------------------------------
(* _request: the request is built, written and ended *)

\* data is JsNull or JsObject(o)
Request(c, method, endpoint, data) ==
    /\ issued' = [issued EXCEPT ![c] = Append(@,
           [method |-> method,
            url |-> ResolveURL(endpoint, config.apiUrl).href,
            client |-> IF ResolveURL(endpoint, config.apiUrl).protocol = "https:"
                       THEN "https" ELSE "http",
            headers |-> [ContentType |-> "application/json",
                         xApiKey |-> config.apiKey,
                         UserAgent |-> "Elysium-Shield-SDK/" \o config.version],
            timeout |-> config.timeout,
            written |-> IF data.type = "object"
                        THEN <<JSONStringify(data.obj)>> ELSE <<>>])]
    /\ phase' = [phase EXCEPT ![c] = "open"]
    /\ promise' = [promise EXCEPT ![c] = Pending]
    /\ UNCHANGED <<destroyed, res, body, events>>

-----------------------------------------------------------------------------
(* The public operations, up to their await *)

RequiredFields == <<"userId", "guildId", "actionType", "reason", "moderatorId">>

\* the list without its last entry
validActionsShort ==
    {"ban", "kick", "timeout", "mute", "warn", "unban", "untimeout", "unmute"}

validActions ==
    {"ban", "kick", "timeout", "mute", "warn", "unban", "untimeout", "unmute",
     "remove_warning"}

validActionsList ==
    "ban, kick, timeout, mute, warn, unban, untimeout, unmute, remove_warning"

\* the indices of the required fields that are falsy in actionData
MissingFields(actionData) ==
    {i \in DOMAIN RequiredFields : ~Truthy(Get(actionData, RequiredFields[i]))}

\* the last required field that is falsy
LastMissing(actionData) ==
    RequiredFields[CHOOSE i \in MissingFields(actionData) :
                     \A j \in MissingFields(actionData) : i >= j]

\* the first required field that is falsy
FirstMissing(actionData) ==
    RequiredFields[CHOOSE i \in MissingFields(actionData) :
                     \A j \in MissingFields(actionData) : i <= j]

\* checkUser without its userId check
checkUserUnvalidated(c, userId) ==
    /\ call[c] = NoCall
    /\ call' = [call EXCEPT ![c] = [op |-> "checkUser", args |-> <<userId>>]]
    /\ Request(c, "POST", "/api/v1/shield/check", JsObject([userId |-> userId]))
    /\ outcome' = [outcome EXCEPT ![c] = Pending]
    /\ UNCHANGED <<config, lastCompleted, lastRateLimit, verified>>

checkUser(c, userId) ==
    /\ call[c] = NoCall
    /\ call' = [call EXCEPT ![c] = [op |-> "checkUser", args |-> <<userId>>]]
    /\ IF ~Truthy(userId)
       THEN /\ outcome' = [outcome EXCEPT ![c] =
                             Rejected(Error("User ID is required"))]
            /\ UNCHANGED <<issued, phase, promise, destroyed, res, body,
                           events>>
       ELSE /\ Request(c, "POST", "/api/v1/shield/check",
                       JsObject([userId |-> userId]))
            /\ outcome' = [outcome EXCEPT ![c] = Pending]
    /\ UNCHANGED <<config, lastCompleted, lastRateLimit, verified>>

reportAction(c, actionData) ==
    /\ call[c] = NoCall
    /\ call' = [call EXCEPT ![c] = [op |-> "reportAction", args |-> <<actionData>>]]
    /\ IF MissingFields(actionData) # {}
       THEN /\ outcome' = [outcome EXCEPT ![c] =
                  Rejected(Error(FirstMissing(actionData) \o " is required"))]
            /\ UNCHANGED <<issued, phase, promise, destroyed, res, body,
                           events>>
       ELSE IF actionData.actionType \notin validActions
       THEN /\ outcome' = [outcome EXCEPT ![c] =
                  Rejected(Error("Invalid action type. Must be one of: "
                                   \o validActionsList))]
            /\ UNCHANGED <<issued, phase, promise, destroyed, res, body,
                           events>>
       ELSE /\ Request(c, "POST", "/api/v1/shield/report-action",
                       JsObject(actionData))
            /\ outcome' = [outcome EXCEPT ![c] = Pending]
    /\ UNCHANGED <<config, lastCompleted, lastRateLimit, verified>>

getNetworkStats(c) ==
    /\ call[c] = NoCall
    /\ call' = [call EXCEPT ![c] = [op |-> "getNetworkStats", args |-> <<>>]]
    /\ Request(c, "GET", "/api/v1/shield/stats", JsNull)
    /\ outcome' = [outcome EXCEPT ![c] = Pending]
    /\ UNCHANGED <<config, lastCompleted, lastRateLimit, verified>>

\* verifyApiKey calls getNetworkStats and awaits it
verifyApiKey(c) ==
    /\ call[c] = NoCall
    /\ call' = [call EXCEPT ![c] = [op |-> "verifyApiKey", args |-> <<>>]]
    /\ Request(c, "GET", "/api/v1/shield/stats", JsNull)
    /\ outcome' = [outcome EXCEPT ![c] = Pending]
    /\ verified' = [verified EXCEPT ![c] = Pending]
    /\ UNCHANGED <<config, lastCompleted, lastRateLimit>>

-----------------------------------------------------------------------------
(* The events of the request and of its response *)

\* the messages of the errors the transport may raise
NetworkErrors == {"connect ECONNREFUSED 127.0.0.1:3000", "socket hang up"}

\* the callback of client.request: the response has started, body = ''
ResponseStart(c, statusCode, headers) ==
    /\ phase[c] = "open"
    /\ phase' = [phase EXCEPT ![c] = "responding"]
    /\ res' = [res EXCEPT ![c] = [statusCode |-> statusCode, headers |-> headers]]
    /\ body' = [body EXCEPT ![c] = ""]
    /\ events' = [events EXCEPT ![c] = Append(@, "response")]
    /\ UNCHANGED <<config, lastCompleted, lastRateLimit, call, issued,
                   destroyed, promise, outcome, verified>>

\* res.on('data') if body were a property of the instance: the chunk is
\* appended to the body of every response being read
ResDataShared(c, chunk) ==
    /\ phase[c] = "responding"
    /\ chunk \in NextChunks(body[c])
    /\ body' = [d \in Calls |->
                  IF phase[d] = "responding" THEN body[d] \o chunk ELSE body[d]]
    /\ events' = [events EXCEPT ![c] = Append(@, "data")]
    /\ UNCHANGED <<config, lastCompleted, lastRateLimit, call, issued, phase,
                   destroyed, res, promise, outcome, verified>>

\* res.on('data'): body += chunk
ResData(c, chunk) ==
    /\ phase[c] = "responding"
    /\ chunk \in NextChunks(body[c])
    /\ body' = [body EXCEPT ![c] = @ \o chunk]
    /\ events' = [events EXCEPT ![c] = Append(@, "data")]
    /\ UNCHANGED <<config, lastCompleted, lastRateLimit, call, issued, phase,
                   destroyed, res, promise, outcome, verified>>

\* res.on('end'): parse, extract the rate limit, resolve or reject
ResEnd(c) ==
    /\ phase[c] = "responding"
    /\ phase' = [phase EXCEPT ![c] = "ended"]
    /\ LET settle == OnEnd(res[c].statusCode, res[c].headers, body[c])
       IN  promise' = [promise EXCEPT ![c] =
                         IF settle.kind = "resolve"
                         THEN Resolve(@, settle.value)
                         ELSE Reject(@, settle.reason)]
    /\ events' = [events EXCEPT ![c] = Append(@, "end")]
    /\ lastCompleted' = c
    /\ UNCHANGED <<config, lastRateLimit, call, issued, destroyed, res, body,
                   outcome, verified>>

\* the connection closes before the body is complete: the response emits
\* 'aborted' and 'close', for which _request registers no handler
ResAborted(c) ==
    /\ phase[c] = "responding"
    /\ phase' = [phase EXCEPT ![c] = "dropped"]
    /\ events' = [events EXCEPT ![c] = Append(@, "aborted")]
    /\ UNCHANGED <<config, lastCompleted, lastRateLimit, call, issued,
                   destroyed, res, body, promise, outcome, verified>>

\* req.on('error'): a transport error, or the error that follows req.destroy()
ReqError(c, message) ==
    /\ phase[c] \in {"open", "responding", "destroying"}
    /\ phase' = [phase EXCEPT ![c] =
                   IF phase[c] = "destroying" THEN "destroyed" ELSE "failed"]
    /\ promise' = [promise EXCEPT ![c] =
                     Reject(@, [message |-> "Network error", error |-> message])]
    /\ events' = [events EXCEPT ![c] = Append(@, "error")]
    /\ UNCHANGED <<config, lastCompleted, lastRateLimit, call, issued,
                   destroyed, res, body, outcome, verified>>

\* the timeout handler without its req.destroy(): the request stays as it is
DestroySkipped(ph) == [phase |-> ph, destroyed |-> FALSE]

\* req.destroy() in phase ph: the connection is closed; before a response an
\* 'error' event is still to come
Destroy(ph) ==
    [phase |-> IF ph = "open" THEN "destroying" ELSE "destroyed",
     destroyed |-> TRUE]

\* req.on('timeout'): destroy the request, then reject
ReqTimeout(c) ==
    /\ phase[c] \in {"open", "responding"}
    /\ \A i \in DOMAIN events[c] : events[c][i] # "timeout"
    /\ phase' = [phase EXCEPT ![c] = Destroy(phase[c]).phase]
    /\ destroyed' = [destroyed EXCEPT ![c] = Destroy(phase[c]).destroyed]
    /\ promise' = [promise EXCEPT ![c] =
                     Reject(@, [message |-> "Request timeout",
                                error |-> "Request exceeded "
                                            \o ToString(config.timeout) \o "ms"])]
    /\ events' = [events EXCEPT ![c] = Append(@, "timeout")]
    /\ UNCHANGED <<config, lastCompleted, lastRateLimit, call, issued, res,
                   body, outcome, verified>>

-----------------------------------------------------------------------------
(* The public operations, from their await on *)

\* !response.success is false
Success(response) ==
    /\ response.type = "object"
    /\ Has(response.obj, "success")
    /\ response.obj.success

\* response.data
Data(response) ==
    IF response.type = "object" /\ Has(response.obj, "data")
    THEN JsObject(response.obj.data)
    ELSE JsUndefined

\* checkUser if its catch rethrew the message of a rejection as it is
checkUserResultBare(p) ==
    IF p.state = "rejected"
    THEN Rejected(Error(p.reason.message))
    ELSE IF p.value.type = "null"
    THEN Rejected(Error("Failed to check user: "
                          \o NullReadError("success").message))
    ELSE IF ~Success(p.value)
    THEN Rejected(Error("Failed to check user: "
                          \o Or(Field(p.value, "error"), "Failed to check user")))
    ELSE Fulfilled(Data(p.value))

\* the try/catch of checkUser, given the settled promise p of _request
checkUserResult(p) ==
    IF p.state = "rejected"
    THEN Rejected(Error("Failed to check user: " \o p.reason.message))
    ELSE IF p.value.type = "null"
    THEN Rejected(Error("Failed to check user: "
                          \o NullReadError("success").message))
    ELSE IF ~Success(p.value)
    THEN Rejected(Error("Failed to check user: "
                          \o Or(Field(p.value, "error"), "Failed to check user")))
    ELSE Fulfilled(Data(p.value))

\* reportAction if it returned response.data as the other operations do
reportActionResultData(p) ==
    IF p.state = "rejected"
    THEN Rejected(Error("Failed to report action: " \o p.reason.message))
    ELSE IF p.value.type = "null"
    THEN Rejected(Error("Failed to report action: "
                          \o NullReadError("success").message))
    ELSE IF ~Success(p.value)
    THEN Rejected(Error("Failed to report action: "
                          \o Or(Field(p.value, "error"), "Failed to report action")))
    ELSE Fulfilled(Data(p.value))

\* the try/catch of reportAction
reportActionResult(p) ==
    IF p.state = "rejected"
    THEN Rejected(Error("Failed to report action: " \o p.reason.message))
    ELSE IF p.value.type = "null"
    THEN Rejected(Error("Failed to report action: "
                          \o NullReadError("success").message))
    ELSE IF ~Success(p.value)
    THEN Rejected(Error("Failed to report action: "
                          \o Or(Field(p.value, "error"), "Failed to report action")))
    ELSE Fulfilled(p.value)

\* the try/catch of getNetworkStats
getNetworkStatsResult(p) ==
    IF p.state = "rejected"
    THEN Rejected(Error("Failed to get network stats: " \o p.reason.message))
    ELSE IF p.value.type = "null"
    THEN Rejected(Error("Failed to get network stats: "
                          \o NullReadError("success").message))
    ELSE IF ~Success(p.value)
    THEN Rejected(Error("Failed to get network stats: "
                          \o Or(Field(p.value, "error"),
                                "Failed to get network stats")))
    ELSE Fulfilled(Data(p.value))

\* verifyApiKey without its catch: the failure of getNetworkStats propagates
verifyApiKeyRethrows(p) ==
    IF p.state = "fulfilled" THEN Fulfilled(TRUE) ELSE Rejected(p.reason)

\* the try/catch of verifyApiKey, given the settled promise of getNetworkStats
verifyApiKeyResult(p) ==
    IF p.state = "fulfilled" THEN Fulfilled(TRUE) ELSE Fulfilled(FALSE)

checkUserResume(c) ==
    /\ call[c].op = "checkUser"
    /\ outcome[c] = Pending
    /\ Settled(promise[c])
    /\ outcome' = [outcome EXCEPT ![c] = checkUserResult(promise[c])]
    /\ UNCHANGED <<config, lastCompleted, lastRateLimit, call, issued, phase,
                   destroyed, res, body, events, promise, verified>>

reportActionResume(c) ==
    /\ call[c].op = "reportAction"
    /\ outcome[c] = Pending
    /\ Settled(promise[c])
    /\ outcome' = [outcome EXCEPT ![c] = reportActionResult(promise[c])]
    /\ UNCHANGED <<config, lastCompleted, lastRateLimit, call, issued, phase,
                   destroyed, res, body, events, promise, verified>>

getNetworkStatsResume(c) ==
    /\ call[c].op \in {"getNetworkStats", "verifyApiKey"}
    /\ outcome[c] = Pending
    /\ Settled(promise[c])
    /\ outcome' = [outcome EXCEPT ![c] = getNetworkStatsResult(promise[c])]
    /\ UNCHANGED <<config, lastCompleted, lastRateLimit, call, issued, phase,
                   destroyed, res, body, events, promise, verified>>

verifyApiKeyResume(c) ==
    /\ call[c].op = "verifyApiKey"
    /\ verified[c] = Pending
    /\ Settled(outcome[c])
    /\ verified' = [verified EXCEPT ![c] = verifyApiKeyResult(outcome[c])]
    /\ UNCHANGED <<config, lastCompleted, lastRateLimit, call, issued, phase,
                   destroyed, res, body, events, promise, outcome>>

-----------------------------------------------------------------------------
(* The inputs of the calls *)

UserIds == {Undefined, "", "123456789"}

\* the values a caller may give the field of an action; none of them for a
\* field it omits
FieldValues(field) ==
    CASE field = "userId" -> {"", "123456789"}
      [] field = "guildId" -> {"", "987654321"}
      [] field = "actionType" -> {"", "ban", "remove_warning", "nuke"}
      [] field = "reason" -> {"", "Spam"}
      [] field = "moderatorId" -> {"", "111222333"}

FieldNames == {RequiredFields[i] : i \in DOMAIN RequiredFields}

ActionDatas ==
    UNION {{a \in [present -> UNION {FieldValues(f) : f \in present}] :
              \A f \in present : a[f] \in FieldValues(f)} :
           present \in SUBSET FieldNames}

-----------------------------------------------------------------------------
(* The specification: the calls of SeqCalls, every answer of the service *)

\* the steps of call c
Step(c) ==
    \/ \E userId \in UserIds : checkUser(c, userId)
    \/ \E actionData \in ActionDatas : reportAction(c, actionData)
    \/ getNetworkStats(c)
    \/ verifyApiKey(c)
    \/ \E statusCode \in StatusCodes, headers \in HeaderSets :
          ResponseStart(c, statusCode, headers)
    \/ \E chunk \in NextChunks(body[c]) : ResData(c, chunk)
    \/ ResEnd(c)
    \/ ResAborted(c)
    \/ \E message \in NetworkErrors : ReqError(c, message)
    \/ ReqTimeout(c)
    \/ checkUserResume(c)
    \/ reportActionResume(c)
    \/ getNetworkStatsResume(c)
    \/ verifyApiKeyResume(c)

Next == \E c \in SeqCalls : Step(c)

Spec == Init /\ [][Next]_vars

-----------------------------------------------------------------------------
(* The specification of reportAction: every action type, few answers *)

\* action types a caller may pass: the documented ones, and others
ActionTypes ==
    {"ban", "kick", "timeout", "mute", "warn", "unban", "untimeout", "unmute",
     "remove_warning", "nuke", "BAN", "delete"}

\* action data with every required field, with and without accountCreated
ReportDatas ==
    {[userId |-> "123456789", guildId |-> "987654321", actionType |-> t,
      reason |-> "Spam", moderatorId |-> "111222333"] : t \in ActionTypes}
    \cup
    {[userId |-> "123456789", guildId |-> "987654321", actionType |-> t,
      reason |-> "Spam", moderatorId |-> "111222333",
      accountCreated |-> "2020-01-01T00:00:00.000Z"] : t \in {"ban", "nuke"}}

\* the headers of the few answers
FewHeaders == {EmptyObject, "retry-after" :> <<"4", "2">>}

ReportStep(c) ==
    \/ \E actionData \in ReportDatas : reportAction(c, actionData)
    \/ \E statusCode \in StatusCodes, headers \in FewHeaders :
          ResponseStart(c, statusCode, headers)
    \/ \E chunk \in NextChunks(body[c]) : ResData(c, chunk)
    \/ ResEnd(c)
    \/ ResAborted(c)
    \/ \E message \in NetworkErrors : ReqError(c, message)
    \/ ReqTimeout(c)
    \/ reportActionResume(c)

ReportNext == \E c \in SeqCalls : ReportStep(c)

ReportSpec == Init /\ [][ReportNext]_vars

-----------------------------------------------------------------------------
(* The specification of concurrent calls: every call of Calls, few answers *)

\* one instance, with the default options
ConcInit == Init /\ config = Constructor("sk_live_key", EmptyObject)

ConcUserIds == {"123456789"}

\* the answers of the service: a status code and its headers
ConcAnswers == {<<200, EmptyObject>>, <<429, "retry-after" :> <<"4", "2">>>>}

ConcChunks == {DocOk}

ConcErrors == {"socket hang up"}

ConcStep(c) ==
    \/ \E userId \in ConcUserIds : checkUser(c, userId)
    \/ getNetworkStats(c)
    \/ \E answer \in ConcAnswers : ResponseStart(c, answer[1], answer[2])
    \/ \E chunk \in NextChunks(body[c]) \cap ConcChunks : ResData(c, chunk)
    \/ ResEnd(c)
    \/ \E message \in ConcErrors : ReqError(c, message)
    \/ ReqTimeout(c)
    \/ checkUserResume(c)
    \/ getNetworkStatsResume(c)

ConcNext == \E c \in Calls : ConcStep(c)

ConcSpec == ConcInit /\ [][ConcNext]_vars

-----------------------------------------------------------------------------
(* Properties *)

PublicOps == {"checkUser", "reportAction", "getNetworkStats"}

\* the promise the caller of call c holds
Final(c) == IF call[c].op = "verifyApiKey" THEN verified[c] ELSE outcome[c]

\* the response of call c was received in full and its try block got past
\* JSON.parse and the rate-limit extraction
Extracted(c) ==
    /\ phase[c] = "ended"
    /\ JSONParse(body[c]).ok
    /\ ~ResetThrows(res[c].headers)

\* C1: the promise of the request primitive and the promise of the public
\* operation, once settled, never change: a call has at most one terminal
\* outcome, whatever events follow (an 'error' after the 'timeout' included).
C1_OneOutcome ==
    [][\A c \in Calls :
         /\ Settled(promise[c]) => promise'[c] = promise[c]
         /\ Settled(outcome[c]) => outcome'[c] = outcome[c]]_vars

\* C1 witness: reject was called twice, by the timeout handler and then by
\* the error handler, and the call failed with the timeout
C1_Witness ==
    \E c \in Calls :
        /\ events[c] = <<"timeout", "error">>
        /\ promise[c].state = "rejected"
        /\ promise[c].reason.message = "Request timeout"

\* C2: an invoked call for which no further step (transport event or
\* continuation) is possible has settled: no invocation stays pending forever.
C2_EveryCallSettles ==
    \A c \in Calls :
        (call[c] # NoCall /\ ~ENABLED Step(c)) => Settled(Final(c))

\* C3: getRateLimit() is null while no request has completed, and once a
\* request whose response carried rate-limit headers has completed it is the
\* rate limit extracted from the headers of the request completed last.
C3_GetRateLimit ==
    IF lastCompleted = 0
    THEN getRateLimit = JsNull
    ELSE ( /\ Extracted(lastCompleted)
           /\ DOMAIN ExtractRateLimit(res[lastCompleted].headers) # {} )
         => getRateLimit =
              JsObject(ExtractRateLimit(res[lastCompleted].headers))

\* C4: when a public operation fails because of a non-2xx answer, the error
\* the caller gets carries the status code and the rate limit of the answer.
C4_ErrorCarriesStatus ==
    \A c \in Calls :
        ( /\ call[c].op \in PublicOps
          /\ outcome[c].state = "rejected"
          /\ promise[c].state = "rejected"
          /\ Extracted(c)
          /\ JSONParse(body[c]).value.type # "null"
          /\ ~(res[c].statusCode >= 200 /\ res[c].statusCode < 300) )
        => /\ Has(outcome[c].reason, "statusCode")
           /\ outcome[c].reason.statusCode = res[c].statusCode
           /\ Has(outcome[c].reason, "rateLimit")
           /\ outcome[c].reason.rateLimit = ExtractRateLimit(res[c].headers)

\* C5: the value a public operation returns for a successful response that
\* carried a rate-limit header has a rateLimit field with the extracted limit.
C5_ResultHasRateLimit ==
    \A c \in Calls :
        ( /\ call[c].op \in PublicOps
          /\ outcome[c].state = "fulfilled"
          /\ Extracted(c)
          /\ DOMAIN ExtractRateLimit(res[c].headers) # {} )
        => /\ outcome[c].value.type = "object"
           /\ Has(outcome[c].value.obj, "rateLimit")
           /\ outcome[c].value.obj.rateLimit = ExtractRateLimit(res[c].headers)

\* C6: a fully received body that is not valid JSON makes the request
\* primitive fail with the status code and 'Failed to parse response', for
\* every status code, and the public operation never succeeds.
C6_BadJsonFails ==
    \A c \in Calls :
        (phase[c] = "ended" /\ ~JSONParse(body[c]).ok)
        => /\ promise[c].state = "rejected"
           /\ Has(promise[c].reason, "statusCode")
           /\ promise[c].reason.statusCode = res[c].statusCode
           /\ promise[c].reason.message = "Failed to parse response"
           /\ outcome[c].state \in {"pending", "rejected"}
           /\ verified[c].state = "fulfilled" => verified[c].value = FALSE

\* C6 witness: a 200 answer with an HTML body, and the operation has failed
C6_Witness ==
    \E c \in Calls :
        /\ phase[c] = "ended"
        /\ res[c].statusCode = 200
        /\ body[c] = DocHtml
        /\ outcome[c].state = "rejected"

\* C7: once the timeout event has fired the request has been destroyed and
\* the call fails with the timeout message, also after the error event the
\* destroy raises; the public operation fails with that message.
C7_TimeoutAborts ==
    \A c \in Calls :
        (\E i \in DOMAIN events[c] : events[c][i] = "timeout")
        => /\ destroyed[c]
           /\ phase[c] \in {"destroying", "destroyed"}
           /\ promise[c].state = "rejected"
           /\ promise[c].reason.message = "Request timeout"
           /\ Settled(outcome[c]) =>
                /\ outcome[c].state = "rejected"
                /\ outcome[c].reason.message \in
                     {"Failed to check user: Request timeout",
                      "Failed to report action: Request timeout",
                      "Failed to get network stats: Request timeout"}

\* C7 witness: the error event followed the timeout and the operation failed
C7_Witness ==
    \E c \in Calls :
        /\ events[c] = <<"timeout", "error">>
        /\ destroyed[c]
        /\ outcome[c].state = "rejected"

\* C8: verifyApiKey never rejects; it returns true exactly when its
\* getNetworkStats call resolved, and so returns false unless a 2xx answer
\* was received in full with a body that parses and has a true success flag.
C8_VerifyNeverThrows ==
    \A c \in Calls :
        call[c].op = "verifyApiKey"
        => /\ verified[c].state \in {"pending", "fulfilled"}
           /\ verified[c].state = "fulfilled" =>
                /\ Settled(outcome[c])
                /\ verified[c].value = (outcome[c].state = "fulfilled")
                /\ verified[c].value =>
                     ( /\ phase[c] = "ended"
                       /\ res[c].statusCode >= 200 /\ res[c].statusCode < 300
                       /\ JSONParse(body[c]).ok
                       /\ Success(JSONParse(body[c]).value) )

\* C8 witness: a 401 answer, and verifyApiKey returned false
C8_Witness ==
    \E c \in Calls :
        /\ call[c].op = "verifyApiKey"
        /\ phase[c] = "ended"
        /\ res[c].statusCode = 401
        /\ verified[c] = Fulfilled(FALSE)

\* C9: a checkUser call with a non-empty userId has issued exactly one
\* request, a POST to the check endpoint whose body is {userId}, whatever its
\* outcome; with an empty userId it has failed with the validation error and
\* issued none.
C9_OneRequest ==
    \A c \in Calls :
        call[c].op = "checkUser"
        => IF call[c].args[1] \notin {Undefined, ""}
           THEN /\ Len(issued[c]) = 1
                /\ issued[c][1].method = "POST"
                /\ issued[c][1].url \in
                     {"https://elysium-online.xyz/api/v1/shield/check",
                      "http://localhost:3000/api/v1/shield/check"}
                /\ issued[c][1].written = <<[userId |-> call[c].args[1]]>>
           ELSE /\ issued[c] = <<>>
                /\ outcome[c] = Rejected(Error("User ID is required"))

\* C9 witness: the call failed on a transport error and there is one request
C9_Witness ==
    \E c \in Calls :
        /\ call[c].op = "checkUser"
        /\ phase[c] = "failed"
        /\ outcome[c].state = "rejected"
        /\ Len(issued[c]) = 1

\* the order in which the claim C10 names the required fields
C10_Order == <<"userId", "guildId", "actionType", "reason", "moderatorId">>

\* C10: a reportAction call whose action data lacks required fields (omitted
\* or empty) has failed with '<field> is required' for the first such field
\* in the order userId, guildId, actionType, reason, moderatorId, and has
\* issued no request.
C10_FirstMissingField ==
    \A c \in Calls :
        call[c].op = "reportAction"
        => \A i \in DOMAIN C10_Order :
             ( /\ Get(call[c].args[1], C10_Order[i]) \in {Undefined, ""}
               /\ \A j \in 1..(i - 1) :
                    Get(call[c].args[1], C10_Order[j]) \notin {Undefined, ""} )
             => /\ issued[c] = <<>>
                /\ phase[c] = "none"
                /\ outcome[c] = Rejected(Error(C10_Order[i] \o " is required"))

\* C10 witness: only reason is omitted, and the error names it
C10_Witness ==
    \E c \in Calls :
        /\ call[c].op = "reportAction"
        /\ DOMAIN call[c].args[1] =
             {"userId", "guildId", "actionType", "moderatorId"}
        /\ \A f \in DOMAIN call[c].args[1] : call[c].args[1][f] # ""
        /\ outcome[c] = Rejected(Error("reason is required"))

\* the action types the claim C11 lists
C11_Set ==
    {"ban", "kick", "timeout", "mute", "warn", "unban", "untimeout", "unmute",
     "remove_warning"}

\* C11: a reportAction call whose required fields are all present has, for an
\* actionType outside the nine listed, failed with the validation error and
\* issued no request, and for one inside has issued exactly one POST to the
\* report-action endpoint whose body is the action data.
C11_ActionTypeChecked ==
    \A c \in Calls :
        ( /\ call[c].op = "reportAction"
          /\ \A i \in DOMAIN C10_Order :
               Get(call[c].args[1], C10_Order[i]) \notin {Undefined, ""} )
        => IF call[c].args[1].actionType \in C11_Set
           THEN /\ Len(issued[c]) = 1
                /\ issued[c][1].method = "POST"
                /\ issued[c][1].url \in
                     {"https://elysium-online.xyz/api/v1/shield/report-action",
                      "http://localhost:3000/api/v1/shield/report-action"}
                /\ issued[c][1].written = <<call[c].args[1]>>
           ELSE /\ issued[c] = <<>>
                /\ phase[c] = "none"
                /\ outcome[c] = Rejected(Error(
                     "Invalid action type. Must be one of: ban, kick, timeout, "
                       \o "mute, warn, unban, untimeout, unmute, remove_warning"))

\* C11 witness: remove_warning passed validation, one request was issued and
\* the operation has returned
C11_Witness ==
    \E c \in Calls :
        /\ call[c].op = "reportAction"
        /\ call[c].args[1].actionType = "remove_warning"
        /\ Len(issued[c]) = 1
        /\ outcome[c].state = "fulfilled"

\* the field of the rate limit that reports header h
C12_FieldOf(h) ==
    CASE h = "x-ratelimit-limit" -> "limit"
      [] h = "x-ratelimit-remaining" -> "remaining"
      [] h = "x-ratelimit-reset" -> "resetTimestamp"
      [] h = "retry-after" -> "retryAfter"

\* the header values that are integers, with their value
C12_IntegerOf == (<<"0">> :> 0) @@ (<<"4", "2">> :> 42)

\* the rate limit the caller of _request receives for the response of call
\* c: in the error of a non-2xx status, in the body of a 2xx status
C12_Delivered(c) ==
    IF promise[c].state = "rejected"
    THEN IF Has(promise[c].reason, "rateLimit")
         THEN promise[c].reason.rateLimit ELSE EmptyObject
    ELSE IF Has(promise[c].value.obj, "rateLimit")
         THEN promise[c].value.obj.rateLimit ELSE EmptyObject

\* C12: for a response whose body parses (to an object, when the status is
\* 2xx), the rate limit delivered with the error or with the body has, for
\* each of the four headers independently, the header's field exactly when
\* the header is present, holding the header's integer value (0 included).
C12_FieldsFollowHeaders ==
    \A c \in Calls :
        ( /\ phase[c] = "ended"
          /\ JSONParse(body[c]).ok
          /\ (res[c].statusCode >= 200 /\ res[c].statusCode < 300)
               => JSONParse(body[c]).value.type = "object" )
        => \A h \in RateLimitHeaders :
             (Has(res[c].headers, h)
                => res[c].headers[h] \in DOMAIN C12_IntegerOf)
             => /\ Has(C12_Delivered(c), C12_FieldOf(h))
                     <=> Has(res[c].headers, h)
                /\ Has(res[c].headers, h)
                     => C12_Delivered(c)[C12_FieldOf(h)] =
                          Num(C12_IntegerOf[res[c].headers[h]])

\* the prefix that identifies the operation of call c
C13_Prefix(c) ==
    CASE call[c].op = "checkUser" -> "Failed to check user"
      [] call[c].op = "reportAction" -> "Failed to report action"
      [] call[c].op \in {"getNetworkStats", "verifyApiKey"} ->
           "Failed to get network stats"

\* the messages of the causes a public operation can fail on
C13_Causes ==
    {"User ID is required", "userId is required", "guildId is required",
     "actionType is required", "reason is required", "moderatorId is required",
     "Invalid action type. Must be one of: ban, kick, timeout, mute, warn, "
       \o "unban, untimeout, unmute, remove_warning",
     "Request timeout", "Network error", "Failed to parse response",
     "Request failed", "Too many requests", "rate_limited", "Invalid API key",
     "Failed to check user", "Failed to report action",
     "Failed to get network stats",
     "Cannot read properties of null (reading 'success')"}

\* the message of the cause call c failed on after its request was issued
C13_Cause(c) ==
    IF promise[c].state = "rejected"
    THEN promise[c].reason.message
    ELSE IF promise[c].value.type = "null"
    THEN "Cannot read properties of null (reading 'success')"
    ELSE IF promise[c].value.type = "object"
            /\ Get(promise[c].value.obj, "error") \notin {Undefined, ""}
    THEN promise[c].value.obj.error
    ELSE C13_Prefix(c)

\* C13 as claimed: every failure of a public operation, a validation
\* failure included, has a message made of the prefix of the operation and
\* the message of its cause.
C13_EveryFailurePrefixed ==
    \A c \in Calls :
        outcome[c].state = "rejected"
        => \E cause \in C13_Causes :
             outcome[c].reason.message = C13_Prefix(c) \o ": " \o cause

\* C13 amended: a failure after the request was issued (non-2xx status,
\* success:false body, parse failure, transport error, timeout) has the
\* message '<prefix>: <message of the cause>'; a validation failure has the
\* validation message alone, without prefix.
C13_FailurePrefixedAfterValidation ==
    \A c \in Calls :
        outcome[c].state = "rejected"
        => IF issued[c] # <<>>
           THEN /\ C13_Cause(c) \in C13_Causes
                /\ outcome[c].reason.message =
                     C13_Prefix(c) \o ": " \o C13_Cause(c)
           ELSE outcome[c].reason.message \in C13_Causes

\* C13 witness: a 429 answer with a message, wrapped by checkUser
C13_Witness ==
    \E c \in Calls :
        /\ res[c].statusCode = 429
        /\ outcome[c].state = "rejected"
        /\ outcome[c].reason.message = "Failed to check user: Too many requests"

\* the path of the operation of call c
C14_Path(c) ==
    CASE call[c].op = "checkUser" -> "/api/v1/shield/check"
      [] call[c].op = "reportAction" -> "/api/v1/shield/report-action"
      [] call[c].op \in {"getNetworkStats", "verifyApiKey"} ->
           "/api/v1/shield/stats"

\* scheme and host of the base URLs
C14_Origin ==
    ("https://elysium-online.xyz/api" :> "https://elysium-online.xyz")
      @@ ("http://localhost:3000" :> "http://localhost:3000")

\* C14 as claimed: every request goes to the configured base URL followed by
\* the path of the operation.
C14_UrlIsBasePlusPath ==
    \A c \in Calls : \A i \in DOMAIN issued[c] :
        issued[c][i].url = config.apiUrl \o C14_Path(c)

\* C14 amended: every request goes to the origin (scheme and host) of the
\* configured base URL followed by the path of the operation; the path of
\* the base URL is dropped.
C14_UrlIsOriginPlusPath ==
    \A c \in Calls : \A i \in DOMAIN issued[c] :
        issued[c][i].url = C14_Origin[config.apiUrl] \o C14_Path(c)

\* C14 witness: with the default base URL, getNetworkStats has sent its
\* request to https://elysium-online.xyz/api/v1/shield/stats
C14_Witness ==
    \E c \in Calls :
        /\ config.apiUrl = "https://elysium-online.xyz/api"
        /\ call[c].op = "getNetworkStats"
        /\ Len(issued[c]) = 1
        /\ issued[c][1].url = "https://elysium-online.xyz/api/v1/shield/stats"

\* the body of the response of call c as JSON.parse returns it
C15_Body(c) == JSONParse(body[c]).value.obj

C16_BodyField(c, k) ==
    IF JSONParse(body[c]).value.type = "object"
    THEN Get(JSONParse(body[c]).value.obj, k)
    ELSE Undefined

\* C16: for a response with a status outside [200, 300) whose body parses,
\* _request fails with an error that carries the status code, whose message
\* is the message field of the body, else its error field, else 'Request
\* failed', and that has a rateLimit field (empty without rate-limit headers).
C16_StatusFailureShape ==
    \A c \in Calls :
        ( /\ phase[c] = "ended"
          /\ JSONParse(body[c]).ok
          /\ ~(res[c].statusCode >= 200 /\ res[c].statusCode < 300) )
        => /\ promise[c].state = "rejected"
           /\ Has(promise[c].reason, "statusCode")
           /\ promise[c].reason.statusCode = res[c].statusCode
           /\ promise[c].reason.message =
                IF C16_BodyField(c, "message") # Undefined
                THEN C16_BodyField(c, "message")
                ELSE IF C16_BodyField(c, "error") # Undefined
                THEN C16_BodyField(c, "error")
                ELSE "Request failed"
           /\ Has(promise[c].reason, "rateLimit")
           /\ (DOMAIN res[c].headers = {})
                => promise[c].reason.rateLimit = EmptyObject

\* C17: for a response with a status in [200, 300) whose body parses to a
\* JSON object, _request resolves with that body, and the resolved object has
\* a rateLimit field exactly when a rate-limit field was taken from the
\* headers (no rateLimit field, not an empty one, without such headers).
C17_ResolvesWithBody ==
    \A c \in Calls :
        ( /\ phase[c] = "ended"
          /\ JSONParse(body[c]).ok
          /\ JSONParse(body[c]).value.type = "object"
          /\ res[c].statusCode >= 200 /\ res[c].statusCode < 300 )
        => /\ promise[c].state = "fulfilled"
           /\ promise[c].value.type = "object"
           /\ \A k \in DOMAIN C15_Body(c) :
                 /\ Has(promise[c].value.obj, k)
                 /\ promise[c].value.obj[k] = C15_Body(c)[k]
           /\ DOMAIN promise[c].value.obj \subseteq
                 DOMAIN C15_Body(c) \cup {"rateLimit"}
           /\ Has(promise[c].value.obj, "rateLimit")
                 <=> (\E h \in RateLimitHeaders : HeaderPresent(res[c].headers, h))

\* everything the model holds of call c
C18_OfCall(c) ==
    <<call[c], issued[c], phase[c], destroyed[c], res[c], body[c], events[c],
      promise[c], outcome[c], verified[c]>>

\* the events of call c that settle the promise of _request
C18_Settling(c) ==
    SelectSeq(events[c], LAMBDA e : e \in {"end", "error", "timeout"})

\* the promise of _request of call c, from its own events, response and body
C18_OwnPromise(c) ==
    IF C18_Settling(c) = <<>>
    THEN promise[c] = Pending
    ELSE CASE C18_Settling(c)[1] = "end" ->
                LET settle == OnEnd(res[c].statusCode, res[c].headers, body[c])
                IN  promise[c] = IF settle.kind = "resolve"
                                 THEN Fulfilled(settle.value)
                                 ELSE Rejected(settle.reason)
           [] C18_Settling(c)[1] = "timeout" ->
                promise[c] = Rejected([message |-> "Request timeout",
                                       error |-> "Request exceeded "
                                          \o ToString(config.timeout) \o "ms"])
           [] OTHER ->
                /\ promise[c].state = "rejected"
                /\ promise[c].reason.message = "Network error"
                /\ promise[c].reason.error \in NetworkErrors

\* the outcome of call c, from its own arguments and its own promise
C18_OwnOutcome(c) ==
    CASE call[c].op = "checkUser" ->
           /\ issued[c][1].written = <<[userId |-> call[c].args[1]]>>
           /\ Settled(outcome[c])
                => outcome[c] = checkUserResult(promise[c])
      [] call[c].op = "getNetworkStats" ->
           /\ issued[c][1].written = <<>>
           /\ Settled(outcome[c])
                => outcome[c] = getNetworkStatsResult(promise[c])
      [] OTHER -> TRUE

C19_Known ==
    {<<0, "1970-01-01T00:00:00.000Z">>,
     <<42, "1970-01-01T00:00:42.000Z">>,
     <<86400, "1970-01-02T00:00:00.000Z">>,
     <<951782400, "2000-02-29T00:00:00.000Z">>,
     <<1763566621, "2025-11-19T15:37:01.000Z">>}

\* the epoch seconds an x-ratelimit-reset header value stands for
C19_Epoch == (<<"0">> :> 0) @@ (<<"4", "2">> :> 42)

\* the calls whose response was read and delivered a rate limit
C19_HasRateLimit(c) ==
    /\ phase[c] = "ended"
    /\ \/ promise[c].state = "rejected" /\ Has(promise[c].reason, "rateLimit")
       \/ /\ promise[c].state = "fulfilled"
          /\ promise[c].value.type = "object"
          /\ Has(promise[c].value.obj, "rateLimit")

C19_RateLimit(c) ==
    IF promise[c].state = "rejected"
    THEN promise[c].reason.rateLimit
    ELSE promise[c].value.obj.rateLimit

\* C19: in every rate limit a response delivers, resetTimestamp and resetAt
\* are both present when the response has an x-ratelimit-reset header and
\* both absent when it has none; resetTimestamp is the header's epoch seconds
\* e and resetAt is the ISO-8601 encoding of e, whatever the status, the body
\* and the other headers are; distinct e have distinct encodings.
C19_ResetFields ==
    /\ \A k \in C19_Known : toISOString(k[1]) = k[2]
    /\ \A j, k \in C19_Known :
          j[2] = k[2] => j[1] = k[1]
    /\ \A c \in Calls :
          C19_HasRateLimit(c) =>
            IF HeaderPresent(res[c].headers, "x-ratelimit-reset")
            THEN LET e == C19_Epoch[res[c].headers["x-ratelimit-reset"]]
                 IN  /\ Has(C19_RateLimit(c), "resetTimestamp")
                     /\ Has(C19_RateLimit(c), "resetAt")
                     /\ C19_RateLimit(c).resetTimestamp = Num(e)
                     /\ <<e, C19_RateLimit(c).resetAt>> \in C19_Known
            ELSE /\ ~Has(C19_RateLimit(c), "resetTimestamp")
                 /\ ~Has(C19_RateLimit(c), "resetAt")

\* C19 witness: a 429 answer with x-ratelimit-reset: 42 and no other header
\* was read, and its error has resetTimestamp 42 and the encoding of 42
C19_Witness ==
    \E c \in Calls :
        /\ phase[c] = "ended"
        /\ res[c].statusCode = 429
        /\ res[c].headers = ("x-ratelimit-reset" :> <<"4", "2">>)
        /\ promise[c].state = "rejected"
        /\ Has(promise[c].reason, "rateLimit")
        /\ promise[c].reason.rateLimit =
             [resetAt |-> "1970-01-01T00:00:42.000Z", resetTimestamp |-> Num(42)]

====
